---- MODULE Spec2Model ----
(***************************************************************************)
(* A model of demo_plots.py: the three transit light-curve functions       *)
(* evaluated over the shared time grid, and the animation callbacks that   *)
(* reveal the precomputed flux arrays frame by frame.                      *)
(*                                                                         *)
(* Numbers.  A float is modelled as a fixed-point integer counted in       *)
(* units of 1/Scale, rounded to nearest after every operation as IEEE-754  *)
(* arithmetic rounds after every operation, plus the three special values  *)
(* PosInf, NegInf and NaN that numpy produces (with a RuntimeWarning, not  *)
(* an exception) on division by zero.                                      *)
(***************************************************************************)
EXTENDS Integers, Sequences, FiniteSets, TLC

VARIABLES time, args, ret, flux_3, flux_20, line1, line2, pc, anim, gif

vars == <<time, args, ret, flux_3, flux_20, line1, line2, pc, anim, gif>>

(***************************************************************************)
(* Floating-point arithmetic                                               *)
(***************************************************************************)
\* Resolution of the fixed-point representation: the value 1.0.
Scale == 1000

\* Guard digits of a quotient that is later multiplied by an integer (the
\* step of linspace): a float keeps relative, not absolute, precision.
Guard == 1000

\* inf, -inf and nan: values outside the range of every finite result.
PosInf == 2000000000
NegInf == -PosInf
NaN == PosInf + 1

IsNaN(a) == a = NaN
IsInf(a) == a = PosInf \/ a = NegInf
IsFinite(a) == ~IsNaN(a) /\ ~IsInf(a)

Abs(n) == IF n < 0 THEN -n ELSE n
Sign(n) == IF n < 0 THEN -1 ELSE IF n > 0 THEN 1 ELSE 0

\* n / d rounded to the nearest integer, ties away from zero: the rounding is
\* symmetric in the sign of the operands, as IEEE rounding is.
Round(n, d) == Sign(n) * Sign(d) * ((Abs(n) + Abs(d) \div 2) \div Abs(d))

\* Round(a * b, Scale) for magnitudes a, b >= 0, computed without forming the
\* full product a * b.
MulMag(a, b) ==
    a * (b \div Scale) + (a * (b % Scale) + Scale \div 2) \div Scale

\* A literal p/q of the source as a float.
Lit(p, q) == Round(p * Scale, q)

FNeg(a) == IF IsNaN(a) THEN NaN ELSE IF a = PosInf THEN NegInf
           ELSE IF a = NegInf THEN PosInf ELSE -a

FAbs(a) == IF IsNaN(a) THEN NaN ELSE IF IsInf(a) THEN PosInf ELSE Abs(a)

FAdd(a, b) ==
    IF IsNaN(a) \/ IsNaN(b) THEN NaN
    ELSE IF IsInf(a) /\ IsInf(b) THEN (IF a = b THEN a ELSE NaN)
    ELSE IF IsInf(a) THEN a
    ELSE IF IsInf(b) THEN b
    ELSE a + b

FSub(a, b) == FAdd(a, FNeg(b))

FMul(a, b) ==
    IF IsNaN(a) \/ IsNaN(b) THEN NaN
    ELSE IF IsInf(a) \/ IsInf(b)
         THEN (IF a = 0 \/ b = 0 THEN NaN
               ELSE IF (a > 0) = (b > 0) THEN PosInf ELSE NegInf)
    ELSE Sign(a) * Sign(b) * MulMag(Abs(a), Abs(b))

\* True division.  A zero divisor does not raise: numpy returns inf (or nan
\* for 0/0) and only warns.
FDiv(a, b) ==
    IF IsNaN(a) \/ IsNaN(b) THEN NaN
    ELSE IF IsInf(a) /\ IsInf(b) THEN NaN
    ELSE IF IsInf(a) THEN (IF (a > 0) = (b >= 0) THEN PosInf ELSE NegInf)
    ELSE IF IsInf(b) THEN 0
    ELSE IF b = 0
         THEN (IF a = 0 THEN NaN ELSE IF a > 0 THEN PosInf ELSE NegInf)
    ELSE Round(a * Scale, b)

\* x ** 2
FSquare(a) == FMul(a, a)

Ln2 == Lit(69315, 100000)
ExpTerms == 8
MaxHalvings == 24

RECURSIVE Pow2(_)
Pow2(k) == IF k = 0 THEN 1 ELSE 2 * Pow2(k - 1)

\* Horner evaluation of the Taylor polynomial of e^r, terms n..ExpTerms.
RECURSIVE ExpPoly(_, _)
ExpPoly(r, n) ==
    IF n > ExpTerms THEN Scale
    ELSE Scale + Round(r * ExpPoly(r, n + 1), n * Scale)

\* e^x for a finite x <= 0: e^x = e^r / 2^k with x = r - k ln 2,
\* -ln 2 < r <= 0; it underflows to 0.
ExpNeg(x) ==
    LET k == Abs(x) \div Ln2
        r == -(Abs(x) - k * Ln2)
    IN  IF k > MaxHalvings THEN 0 ELSE Round(ExpPoly(r, 1), Pow2(k))

\* np.exp.  Every argument the program passes is <= 0.
FExp(x) ==
    IF IsNaN(x) THEN NaN
    ELSE IF x = PosInf THEN PosInf
    ELSE IF x = NegInf THEN 0
    ELSE IF x > 0 THEN FDiv(Scale, ExpNeg(-x))
    ELSE ExpNeg(x)

Pi == Lit(314159, 100000)
TwoPi == Lit(628319, 100000)
SinTerms == 5

\* Horner evaluation of the Taylor polynomial of sin(y)/y in y^2 = q.
RECURSIVE SinPoly(_, _)
SinPoly(q, n) ==
    IF n > SinTerms THEN Scale
    ELSE Scale - Round(q * SinPoly(q, n + 1), (2 * n) * (2 * n + 1) * Scale)

\* sin of a magnitude y >= 0: reduced to [0, 2 pi), then to [0, pi/2].
SinPos(y) ==
    LET a == y % TwoPi
        neg == a > Pi
        b == IF neg THEN a - Pi ELSE a
        c == IF 2 * b > Pi THEN Pi - b ELSE b
        s == MulMag(c, SinPoly(MulMag(c, c), 1))
    IN  IF neg THEN -s ELSE s

\* np.sin: odd in its argument.
FSin(x) ==
    IF ~IsFinite(x) THEN NaN
    ELSE IF x < 0 THEN -SinPos(-x) ELSE SinPos(x)

(***************************************************************************)
(* The time grid                                                           *)
(***************************************************************************)
\* np.linspace(start, stop, num): step = (stop - start) / (num - 1),
\* y[i] = i * step + start, and the last sample is set to stop itself.
linspace(start, stop, num) ==
    LET div == num - 1
        step == Round((stop - start) * Guard, div)
    IN  [i \in 1..num |->
            IF i = num /\ num > 1 THEN stop
            ELSE Round((i - 1) * step, Guard) + start]

\* Line 6: the number of samples, and the ends of the interval.
NumSamples == 400
TimeStart == -Lit(3, 2)
TimeStop == Lit(3, 2)

\* A coarser grid over the same interval with an odd number of samples, so
\* that t = 0 is a sample (the 400-point grid has none).
CoarseSamples == 9

Grids == { linspace(TimeStart, TimeStop, NumSamples),
           linspace(TimeStart, TimeStop, CoarseSamples) }

(***************************************************************************)
(* The transit models (lines 9-56).  Each reads the module global `time`.  *)
(***************************************************************************)
One == Scale
NegHalf == -Lit(5, 10)
RingDecay == Lit(3, 10)

\* dip with the sign of the exponent lost: exp(+0.5 * (t / width) ** 2).
dip_sign_slip(depth, width, t) ==
    FSub(One, FMul(depth, FExp(FMul(Lit(5, 10), FSquare(FDiv(t, width))))))

\* 1.0 - depth * np.exp(-0.5 * (t / width) ** 2)
dip(depth, width, t) ==
    FSub(One, FMul(depth, FExp(FMul(NegHalf, FSquare(FDiv(t, width))))))

\* ring_amp * np.sin(ring_freq * t) * np.exp(-abs(t) / 0.3)
ring_mod(ring_amp, ring_freq, t) ==
    FMul(FMul(ring_amp, FSin(FMul(ring_freq, t))),
         FExp(FDiv(FNeg(FAbs(t)), RingDecay)))

\* symmetric_transit with the egress side stretched by the default factor of
\* asymmetric_transit.
symmetric_transit_skewed(depth, sigma) ==
    [i \in 1..Len(time) |->
        IF time[i] < 0 THEN dip(depth, sigma, time[i])
        ELSE dip(depth, FMul(sigma, 2 * One), time[i])]

\* Line 10: one vectorised expression over the whole grid.
symmetric_transit(depth, sigma) ==
    [i \in 1..Len(time) |-> dip(depth, sigma, time[i])]

\* asymmetric_sample with the two sides swapped.
asymmetric_sample_swapped(depth, sigma, asymmetry_factor, t) ==
    IF t < 0
    THEN dip(depth, FMul(sigma, asymmetry_factor), t)
    ELSE dip(depth, sigma, t)

\* asymmetric_sample stretching the egress by the default factor, whatever
\* factor is passed.
asymmetric_sample_default_factor(depth, sigma, asymmetry_factor, t) ==
    IF t < 0
    THEN dip(depth, sigma, t)
    ELSE dip(depth, FMul(sigma, 2 * One), t)

\* Lines 20-25: the branch on the sign of t, and the width each side divides by.
asymmetric_sample(depth, sigma, asymmetry_factor, t) ==
    IF t < 0
    THEN dip(depth, sigma, t)
    ELSE dip(depth, FMul(sigma, asymmetry_factor), t)

\* Lines 18-26.
asymmetric_transit(depth, sigma, asymmetry_factor) ==
    [i \in 1..Len(time) |->
        asymmetric_sample(depth, sigma, asymmetry_factor, time[i])]

\* ringed_sample adding the ring modulation on the ingress side only.
ringed_sample_ingress_only(depth, sigma, asymmetry_factor, ring_amp, ring_freq, t) ==
    IF t < 0
    THEN FAdd(dip(depth, sigma, t), ring_mod(ring_amp, ring_freq, t))
    ELSE dip(depth, FMul(sigma, asymmetry_factor), t)

\* Lines 48-55: base dip and ring modulation of one sample.
ringed_sample(depth, sigma, asymmetry_factor, ring_amp, ring_freq, t) ==
    IF t < 0
    THEN FAdd(dip(depth, sigma, t), ring_mod(ring_amp, ring_freq, t))
    ELSE FAdd(dip(depth, FMul(sigma, asymmetry_factor), t),
              ring_mod(ring_amp, ring_freq, t))

\* Lines 46-56.
ringed_transit(depth, sigma, asymmetry_factor, ring_amp, ring_freq) ==
    [i \in 1..Len(time) |->
        ringed_sample(depth, sigma, asymmetry_factor, ring_amp, ring_freq,
                      time[i])]

(***************************************************************************)
(* State                                                                   *)
(*   time, flux_3, flux_20   the module's arrays (lines 6, 59, 60)         *)
(*   line1, line2            the data each plotted line holds              *)
(*   pc                      where the run stands                          *)
(*   anim                    frames FuncAnimation has taken from           *)
(*                           range(len(time))                              *)
(*   gif                     what the writer has grabbed: the number of    *)
(*                           frames and the last frame's line data         *)
(*   args, ret               the arguments of a call of the model          *)
(*                           functions and what each call ended with       *)
(***************************************************************************)
Functions == {"symmetric_transit", "asymmetric_transit", "ringed_transit"}

NotCalled == [kind |-> "none", value |-> <<>>]
Return(v) == [kind |-> "return", value |-> v]
Raise(e) == [kind |-> "raise", value |-> e]

NoData == [x |-> <<>>, y |-> <<>>]
NoGif == [frames |-> 0, line1 |-> NoData, line2 |-> NoData]

\* Arguments the model functions are called with: depth in (0, 1); sigma and
\* asymmetry_factor valid (> 0) and invalid (<= 0); ring_amp >= 0.
Depths == {Lit(3, 100), Lit(1, 2)}
Sigmas == {-Lit(1, 10), 0, Lit(1, 10), Lit(3, 10)}
Factors == {0, Lit(4, 10), One, 2 * One}
RingAmps == {0, Lit(3, 100)}
RingFreqs == {20 * One, 25 * One}

ArgSets == [depth : Depths, sigma : Sigmas, asymmetry_factor : Factors,
            ring_amp : RingAmps, ring_freq : RingFreqs]

\* The arguments of lines 59-66.
Flux3Args == [depth |-> Lit(3, 100), sigma |-> Lit(1, 10)]
Flux20Args == [depth |-> Lit(20, 100), sigma |-> Lit(3, 10),
               asymmetry_factor |-> Lit(4, 10), ring_amp |-> Lit(3, 100),
               ring_freq |-> 20 * One]

\* s[:n] of Python: a negative n counts from the end.
Slice(s, n) ==
    LET k == IF n < 0 THEN (IF Len(s) + n < 0 THEN 0 ELSE Len(s) + n)
             ELSE IF n > Len(s) THEN Len(s) ELSE n
    IN  SubSeq(s, 1, k)

(***************************************************************************)
(* Calls of the model functions.  None of the three validates its          *)
(* arguments or has a raise statement: every call returns an array.        *)
(***************************************************************************)
InitFunctions ==
    /\ time \in Grids
    /\ args \in ArgSets
    /\ ret = [f \in Functions |-> NotCalled]
    /\ flux_3 = <<>> /\ flux_20 = <<>>
    /\ line1 = NoData /\ line2 = NoData
    /\ pc = "functions"
    /\ anim = 0
    /\ gif = NoGif

CallSymmetric ==
    /\ pc = "functions"
    /\ ret["symmetric_transit"] = NotCalled
    /\ ret' = [ret EXCEPT !["symmetric_transit"] =
                  Return(symmetric_transit(args.depth, args.sigma))]
    /\ UNCHANGED <<time, args, flux_3, flux_20, line1, line2, pc, anim, gif>>

CallAsymmetric ==
    /\ pc = "functions"
    /\ ret["asymmetric_transit"] = NotCalled
    /\ ret' = [ret EXCEPT !["asymmetric_transit"] =
                  Return(asymmetric_transit(args.depth, args.sigma,
                                            args.asymmetry_factor))]
    /\ UNCHANGED <<time, args, flux_3, flux_20, line1, line2, pc, anim, gif>>

CallRinged ==
    /\ pc = "functions"
    /\ ret["ringed_transit"] = NotCalled
    /\ ret' = [ret EXCEPT !["ringed_transit"] =
                  Return(ringed_transit(args.depth, args.sigma,
                                        args.asymmetry_factor, args.ring_amp,
                                        args.ring_freq))]
    /\ UNCHANGED <<time, args, flux_3, flux_20, line1, line2, pc, anim, gif>>

NextFunctions == CallSymmetric \/ CallAsymmetric \/ CallRinged

SpecFunctions == InitFunctions /\ [][NextFunctions]_vars

(***************************************************************************)
(* The animation callbacks (lines 81-89)                                   *)
(***************************************************************************)
\* Neither callback assigns a module global: each only calls set_data.
init ==
    /\ line1' = NoData
    /\ line2' = NoData
    /\ UNCHANGED <<time, flux_3, flux_20>>

\* update slicing the flux arrays one sample further than time.
update_y_one_further(frame) ==
    /\ line1' = [x |-> Slice(time, frame), y |-> Slice(flux_3, frame + 1)]
    /\ line2' = [x |-> Slice(time, frame), y |-> Slice(flux_20, frame + 1)]
    /\ UNCHANGED <<time, flux_3, flux_20>>

\* update rebinding the global arrays to the slices it shows.
update_rebinding(frame) ==
    /\ line1' = [x |-> Slice(time, frame), y |-> Slice(flux_3, frame)]
    /\ line2' = [x |-> Slice(time, frame), y |-> Slice(flux_20, frame)]
    /\ flux_3' = Slice(flux_3, frame)
    /\ flux_20' = Slice(flux_20, frame)
    /\ UNCHANGED time

\* update showing the sample of the frame alone instead of all up to it.
update_sample_only(frame) ==
    /\ line1' = [x |-> SubSeq(time, frame + 1, frame + 1),
                 y |-> SubSeq(flux_3, frame + 1, frame + 1)]
    /\ line2' = [x |-> SubSeq(time, frame + 1, frame + 1),
                 y |-> SubSeq(flux_20, frame + 1, frame + 1)]
    /\ UNCHANGED <<time, flux_3, flux_20>>

update(frame) ==
    /\ line1' = [x |-> Slice(time, frame), y |-> Slice(flux_3, frame)]
    /\ line2' = [x |-> Slice(time, frame), y |-> Slice(flux_20, frame)]
    /\ UNCHANGED <<time, flux_3, flux_20>>

(***************************************************************************)
(* The script, top to bottom.  anim.save draws the initial frame with      *)
(* init, then takes each frame of range(len(time)) in turn, calls update   *)
(* with it and has the writer grab the figure; repeat=False and the        *)
(* exhausted range end it.                                                 *)
(***************************************************************************)
InitScript ==
    /\ time = linspace(TimeStart, TimeStop, NumSamples)
    /\ args = Flux3Args
    /\ ret = [f \in Functions |-> NotCalled]
    /\ flux_3 = <<>> /\ flux_20 = <<>>
    /\ line1 = NoData /\ line2 = NoData
    /\ pc = "flux_3"
    /\ anim = 0
    /\ gif = NoGif

\* Line 59.
EvalFlux3 ==
    /\ pc = "flux_3"
    /\ flux_3' = symmetric_transit(Flux3Args.depth, Flux3Args.sigma)
    /\ pc' = "flux_20"
    /\ UNCHANGED <<time, args, ret, flux_20, line1, line2, anim, gif>>

\* Lines 60-66.
EvalFlux20 ==
    /\ pc = "flux_20"
    /\ flux_20' = ringed_transit(Flux20Args.depth, Flux20Args.sigma,
                                 Flux20Args.asymmetry_factor,
                                 Flux20Args.ring_amp, Flux20Args.ring_freq)
    /\ pc' = "figure"
    /\ UNCHANGED <<time, args, ret, flux_3, line1, line2, anim, gif>>

\* Lines 69-95: both lines are plotted empty; FuncAnimation is built over
\* frames = len(time).
SetupFigure ==
    /\ pc = "figure"
    /\ line1' = NoData /\ line2' = NoData
    /\ anim' = 0
    /\ pc' = "save"
    /\ UNCHANGED <<time, args, ret, flux_3, flux_20, gif>>

\* Line 98, the initial draw.
SaveInitDraw ==
    /\ pc = "save"
    /\ init
    /\ pc' = "frames"
    /\ UNCHANGED <<args, ret, anim, gif>>

\* Line 98, one frame: the next value of range(len(time)) goes to update and
\* the writer grabs what the lines then hold.
SaveFrame ==
    /\ pc = "frames"
    /\ anim < Len(time)
    /\ update(anim)
    /\ anim' = anim + 1
    /\ gif' = [frames |-> gif.frames + 1, line1 |-> line1', line2 |-> line2']
    /\ UNCHANGED <<args, ret, pc>>

\* Lines 98-101: the frames are exhausted; the file is written and closed.
SaveDone ==
    /\ pc = "frames"
    /\ anim = Len(time)
    /\ pc' = "done"
    /\ UNCHANGED <<time, args, ret, flux_3, flux_20, line1, line2, anim, gif>>

NextScript ==
    \/ EvalFlux3
    \/ EvalFlux20
    \/ SetupFigure
    \/ SaveInitDraw
    \/ SaveFrame
    \/ SaveDone

SpecScript == InitScript /\ [][NextScript]_vars

(***************************************************************************)
(* The callbacks called freely: once the arrays and the lines exist, init  *)
(* and update are called in any order with any frame, also one outside     *)
(* range(len(time)).                                                       *)
(***************************************************************************)
FrameMargin == 2

FrameArgs == (0 - FrameMargin)..(NumSamples + FrameMargin)

InitCallbacks ==
    /\ time = linspace(TimeStart, TimeStop, NumSamples)
    /\ args = Flux3Args
    /\ ret = [f \in Functions |-> NotCalled]
    /\ flux_3 = symmetric_transit(Flux3Args.depth, Flux3Args.sigma)
    /\ flux_20 = ringed_transit(Flux20Args.depth, Flux20Args.sigma,
                                Flux20Args.asymmetry_factor,
                                Flux20Args.ring_amp, Flux20Args.ring_freq)
    /\ line1 = NoData /\ line2 = NoData
    /\ pc = "callbacks"
    /\ anim = 0
    /\ gif = NoGif

CallInit ==
    /\ pc = "callbacks"
    /\ init
    /\ UNCHANGED <<args, ret, pc, anim, gif>>

CallUpdate ==
    /\ pc = "callbacks"
    /\ \E frame \in FrameArgs : update(frame)
    /\ UNCHANGED <<args, ret, pc, anim, gif>>

NextCallbacks == CallInit \/ CallUpdate

SpecCallbacks == InitCallbacks /\ [][NextCallbacks]_vars

(***************************************************************************)
(* Everything the module offers: the model functions over their            *)
(* arguments, the script, and the callbacks called freely.                 *)
(***************************************************************************)
Init == InitFunctions \/ InitScript \/ InitCallbacks

Next == NextFunctions \/ NextScript \/ NextCallbacks

Spec == Init /\ [][Next]_vars

(***************************************************************************)
(* Properties                                                              *)
(***************************************************************************)
Called(f) == ret[f].kind # "none"
Samples == 1..Len(time)
ValidSigma == args.sigma > 0
ValidShape == args.sigma > 0 /\ args.asymmetry_factor > 0
Sym == ret["symmetric_transit"].value
Asym == ret["asymmetric_transit"].value
Ring == ret["ringed_transit"].value

\* The arguments of a call of f that the specification calls invalid.
InvalidFor(f) ==
    \/ args.sigma <= 0
    \/ f # "symmetric_transit" /\ args.asymmetry_factor <= 0

\* C1: a call of any of the three functions with sigma <= 0, or (for the two
\* that take it) asymmetry_factor <= 0, ends in an InvalidParameter error
\* and returns no flux series.
C1_InvalidParameterRaised ==
    \A f \in Functions :
        Called(f) /\ InvalidFor(f) => ret[f] = Raise("InvalidParameter")

\* The width the partition policy prescribes for a sample at time t.
PolicyWidth(t) ==
    CASE t < 0 -> args.sigma
      [] t = 0 -> FMul(args.sigma, args.asymmetry_factor)
      [] t > 0 -> FMul(args.sigma, args.asymmetry_factor)

\* C2: in asymmetric_transit and in the base dip of ringed_transit every
\* sample takes the width its sign prescribes: sigma when t < 0,
\* sigma * asymmetry_factor when t >= 0 (t = 0 included).
C2_WidthBySign ==
    /\ Called("asymmetric_transit") =>
          \A i \in Samples :
              Asym[i] = dip(args.depth, PolicyWidth(time[i]), time[i])
    /\ Called("ringed_transit") =>
          \A i \in Samples :
              Ring[i] = FAdd(dip(args.depth, PolicyWidth(time[i]), time[i]),
                             ring_mod(args.ring_amp, args.ring_freq, time[i]))

\* C2's case: both functions have run on a grid holding t = 0, with a factor
\* that makes the two widths differ visibly on the egress side.
C2_Witness ==
    /\ Called("asymmetric_transit") /\ Called("ringed_transit")
    /\ ValidShape /\ args.asymmetry_factor # One
    /\ \E i \in Samples : time[i] = 0
    /\ \E i \in Samples :
          /\ time[i] > 0
          /\ Asym[i] # dip(args.depth, args.sigma, time[i])
    /\ \E i \in Samples :
          /\ time[i] < 0
          /\ Asym[i] # dip(args.depth,
                           FMul(args.sigma, args.asymmetry_factor), time[i])

\* C3: with asymmetry_factor = 1, asymmetric_transit returns at every sample
\* exactly what symmetric_transit returns for the same depth and sigma.
C3_FactorOneIsSymmetric ==
    Called("symmetric_transit") /\ Called("asymmetric_transit")
        /\ ValidSigma /\ args.asymmetry_factor = One
    => /\ Len(Asym) = Len(Sym)
       /\ \A i \in Samples : Asym[i] = Sym[i]

C3_Witness ==
    /\ Called("symmetric_transit") /\ Called("asymmetric_transit")
    /\ ValidSigma /\ args.asymmetry_factor = One
    /\ \E i \in Samples : time[i] > 0 /\ Asym[i] < One /\ Asym[i] = Sym[i]
    /\ \E i \in Samples : time[i] < 0 /\ Asym[i] < One /\ Asym[i] = Sym[i]

\* C4: at every sample ringed_transit is asymmetric_transit plus the ring
\* modulation term, the same formula on both sides of t = 0; with
\* ring_amp = 0 the two series are equal.
C4_RingedIsAsymmetricPlusRing ==
    Called("asymmetric_transit") /\ Called("ringed_transit") /\ ValidShape
    => /\ \A i \in Samples :
             Ring[i] = FAdd(Asym[i],
                            ring_mod(args.ring_amp, args.ring_freq, time[i]))
       /\ args.ring_amp = 0 => \A i \in Samples : Ring[i] = Asym[i]

C4_Witness ==
    /\ Called("asymmetric_transit") /\ Called("ringed_transit") /\ ValidShape
    /\ args.ring_amp > 0
    /\ \E i \in Samples : time[i] < 0 /\ Ring[i] # Asym[i]
    /\ \E i \in Samples : time[i] > 0 /\ Ring[i] # Asym[i]

\* C5 as stated: on the grid, the samples at index i and at the mirrored
\* index (399 - i, counting from 0) have the same symmetric_transit flux.
C5_IndexMirror ==
    Called("symmetric_transit") /\ ValidSigma
    => \A i \in Samples : Sym[i] = Sym[Len(time) + 1 - i]

\* C5, amended: any two samples whose times are exact negatives of each
\* other have the same symmetric_transit flux.
C5_ExactMirror ==
    Called("symmetric_transit") /\ ValidSigma
    => \A i \in Samples :
          \A j \in i..Len(time) : time[j] = -time[i] => Sym[i] = Sym[j]

C5_Witness ==
    /\ Called("symmetric_transit") /\ ValidSigma
    /\ Len(time) = NumSamples
    /\ \E i \in Samples :
          /\ time[i] < 0
          /\ time[Len(time) + 1 - i] = -time[i]
          /\ Sym[i] < One
          /\ Sym[i] = Sym[Len(time) + 1 - i]

\* C6: at a sample t = 0 symmetric_transit and asymmetric_transit return
\* exactly 1 - depth, and no sample of either series is below 1 - depth or
\* above 1.
C6_CenterIsOneMinusDepth ==
    /\ Called("symmetric_transit") /\ ValidSigma =>
          \A i \in Samples :
              /\ time[i] = 0 => Sym[i] = One - args.depth
              /\ One - args.depth <= Sym[i] /\ Sym[i] <= One
    /\ Called("asymmetric_transit") /\ ValidShape =>
          \A i \in Samples :
              /\ time[i] = 0 => Asym[i] = One - args.depth
              /\ One - args.depth <= Asym[i] /\ Asym[i] <= One

C6_Witness ==
    /\ Called("symmetric_transit") /\ Called("asymmetric_transit")
    /\ ValidShape /\ args.asymmetry_factor # One
    /\ \E i \in Samples :
          /\ time[i] = 0
          /\ Sym[i] = One - args.depth
          /\ Asym[i] = One - args.depth
    /\ \E i \in Samples : One - args.depth < Sym[i] /\ Sym[i] < One
    /\ \E i \in Samples : One - args.depth < Asym[i] /\ Asym[i] < One

First(s, n) == [i \in 1..n |-> s[i]]
Flux3Produced == pc \notin {"functions", "flux_3"}
Flux20Produced == pc \notin {"functions", "flux_3", "flux_20"}

\* C7: every series has one value per point of the time domain: each model
\* function returns as many values as time has samples, time is strictly
\* increasing (400 samples in the script), and the x and y that update and
\* init hand to a line have equal length, both lines getting the same x.
C7_EqualLengthSeries ==
    /\ \A f \in Functions : Called(f) =>
          ret[f].kind = "return" /\ Len(ret[f].value) = Len(time)
    /\ \A i \in 1..(Len(time) - 1) : time[i] < time[i + 1]
    /\ pc # "functions" => Len(time) = NumSamples
    /\ Flux3Produced => Len(flux_3) = Len(time)
    /\ Flux20Produced => Len(flux_20) = Len(time)
    /\ Len(line1.x) = Len(line1.y)
    /\ Len(line2.x) = Len(line2.y)
    /\ line1.x = line2.x

\* C7's case: update has handed a proper, non-empty part of the arrays to
\* both lines.
C7_Witness ==
    /\ pc = "callbacks"
    /\ Len(line1.y) > 1 /\ Len(line1.y) < Len(time)
    /\ Len(line2.y) = Len(line1.y)
    /\ line1.y # line2.y

\* C8: once produced, flux_3 and flux_20 never change, and time never
\* changes: not by init, not by update with any frame in any order (which
\* change only the data of line1 and line2), not by a model function.
C8_ArraysImmutable ==
    [][ /\ time' = time
        /\ Flux3Produced => flux_3' = flux_3
        /\ Flux20Produced => flux_20' = flux_20
        /\ pc = "callbacks" => UNCHANGED <<args, ret, pc, anim, gif>>
      ]_vars

\* C8's case: update has run and the arrays are still what lines 59-66
\* produced.
C8_Witness ==
    /\ pc = "callbacks"
    /\ Len(line1.x) > 1
    /\ time = linspace(TimeStart, TimeStop, NumSamples)
    /\ flux_3 = symmetric_transit(Flux3Args.depth, Flux3Args.sigma)
    /\ flux_20 = ringed_transit(Flux20Args.depth, Flux20Args.sigma,
                                Flux20Args.asymmetry_factor,
                                Flux20Args.ring_amp, Flux20Args.ring_freq)

\* C9: init shows no sample; the frames 0, 1, ... arrive in increasing order
\* and after frame k both lines show exactly the first k samples of
\* (time, flux_3) and (time, flux_20); so the number shown never decreases,
\* grows by one per frame, and a sample once shown stays as it was.
C9_IncrementalReveal ==
    [][ /\ pc = "save" /\ pc' = "frames" => line1' = NoData /\ line2' = NoData
        /\ pc = "frames" /\ pc' = "frames" =>
              /\ anim' = anim + 1
              /\ line1' = [x |-> First(time, anim), y |-> First(flux_3, anim)]
              /\ line2' = [x |-> First(time, anim), y |-> First(flux_20, anim)]
              /\ Len(line1'.x) >= Len(line1.x)
              /\ anim > 0 => Len(line1'.x) = Len(line1.x) + 1
              /\ \A i \in 1..Len(line1.x) :
                    /\ line1'.x[i] = line1.x[i] /\ line1'.y[i] = line1.y[i]
                    /\ line2'.x[i] = line2.x[i] /\ line2'.y[i] = line2.y[i]
      ]_vars

\* C9's case: several frames have been delivered in order.
C9_Witness ==
    /\ pc = "frames"
    /\ anim > 3
    /\ Len(line1.x) = anim - 1
    /\ Len(line2.y) = anim - 1

\* C10: the animation ends after exactly len(time) frames and its last frame
\* shows every sample of both arrays, the last one at t = +1.5 included.
C10_FinalFrameShowsAll ==
    pc = "done" =>
        /\ anim = Len(time)
        /\ gif.frames = Len(time)
        /\ gif.line1 = [x |-> time, y |-> flux_3]
        /\ gif.line2 = [x |-> time, y |-> flux_20]
        /\ gif.line1.x[Len(gif.line1.x)] = TimeStop

====
